---------------------------- MODULE Spec2Model ----------------------------
(***************************************************************************)
(* State-machine model of src/App.tsx (LifeLink AI blood-bank dashboard).  *)
(* The file holds two versions of the App component; `impl` selects which  *)
(* one is running (1: lines 339-635, 2: lines 781-944).                    *)
(*                                                                         *)
(* Every React event handler, timer callback and promise continuation is   *)
(* one atomic action (the UI event loop is single threaded and React       *)
(* flushes the state updates of a handler before the next event).          *)
(* `event` is a trace variable: the name of the callback that ran last.    *)
(***************************************************************************)
EXTENDS Integers, Sequences, FiniteSets, TLC

VARIABLES
  impl,                 \* which App implementation of the file is running
  mounted,              \* the mount effect has run
  event,                \* trace: the callback that ran last
  selectedBloodType,    \* useState<BloodType>('O+')
  sortBy,               \* useState<'distance' | 'eta'>('distance')
  userLocation,         \* useState<{lat,lng} | null>(null)
  geo,                  \* state of the one-shot getCurrentPosition request
  results,              \* useState<BloodBank[]>([])
  isSearching,          \* useState(false)
  searchTimers,         \* pending setTimeout callbacks of handleSearch, FIFO
  lastReq,              \* trace: blood type and sort key of the last issued search
  shortageAlert,        \* useState<{text, sources} | null>(null)
  isCheckingShortages,  \* useState(false)
  shortageCalls,        \* unsettled searchBloodShortages promises
  latestLookup,         \* trace: outcome of the most recently started lookup
  chatOpen,             \* useState(false)
  chatHistory,          \* useState<ChatMessage[]>([])
  chatInput,            \* useState('')
  isTyping,             \* useState(false)
  chatCalls,            \* unsettled getBloodBotResponse promises
  uncaught,             \* handlers whose promise rejected with nobody catching
  activeTab,            \* useState<'search' | 'health' | 'dashboard'>('search')
  activeRole,           \* useState<Role>('GUEST')
  dashboardView,        \* useState<'main' | 'inventory'>('main'), implementation 1
  insight,              \* HealthCenter: useState<HealthInsight | null>(null)
  loading,              \* HealthCenter: useState(false)
  healthCalls,          \* unsettled getHealthInsight promises
  mapInstance,          \* BloodMap: useRef<L.Map | null>(null), 0 is null
  markersLayer,         \* BloodMap: useRef<L.LayerGroup | null>(null), 0 is null
  liveMaps,             \* the Leaflet maps created and not yet removed
  mapsCreated,          \* the Leaflet maps created so far, which names them
  markers,              \* the markers held by the marker layer
  camera,               \* the view of the map
  initialPos,           \* trace: the center the last map was created with
  inventory,            \* InventoryManager: useState<Record<BloodType, number>>
  lastUpdate            \* trace: the last updateUnits call and the count it found

searchVars == <<selectedBloodType, sortBy, results, isSearching, searchTimers, lastReq>>
shortageVars == <<shortageAlert, isCheckingShortages, shortageCalls, latestLookup>>
geoVars == <<userLocation, geo>>
chatVars == <<chatOpen, chatHistory, chatInput, isTyping, chatCalls>>
healthVars == <<insight, loading, healthCalls>>
navVars == <<activeTab, activeRole, dashboardView>>
mapVars == <<mapInstance, markersLayer, liveMaps, mapsCreated, markers, camera,
            initialPos>>
inventoryVars == <<inventory, lastUpdate>>
vars == <<impl, mounted, event, searchVars, shortageVars, geoVars, chatVars,
          uncaught, navVars, healthVars, mapVars, inventoryVars>>

-----------------------------------------------------------------------------
(* Bounds of the model *)

\* most search timers pending at once (the search button allows one)
MaxTimers == 2
\* most shortage lookups unsettled at once
MaxLookups == 2
\* longest chat input typed
MaxLen == 1
\* most chat messages submitted in a session
MaxSubmits == 2
\* most health-insight calls unsettled at once
MaxHealthCalls == 1
\* most Leaflet maps created in a session (one per visit of the search tab)
MaxMaps == 2
\* most units of a center handed to BloodMap on its own
MaxUnits == 11
\* the count above which the inventory manager's + button is not pressed
MaxStock == 5

-----------------------------------------------------------------------------
(* Data *)

BloodTypes == {"A+", "A-", "B+", "B-", "O+", "O-", "AB+", "AB-"}

SortKeys == {"distance", "eta"}

Null == "null"

\* distance_km is kept in tenths of a kilometre (1.2 km = 12, 2.8 km = 28)
MOCK_CENTERS ==
  << [id |-> "1", units_available |-> 12,
      inventory |-> ("A+" :> 12 @@ "A-" :> 5 @@ "B+" :> 8 @@ "B-" :> 2 @@
                     "O+" :> 20 @@ "O-" :> 3 @@ "AB+" :> 4 @@ "AB-" :> 1),
      distance_km |-> 12, eta_minutes |-> 5],
     [id |-> "2", units_available |-> 4,
      inventory |-> ("A+" :> 4 @@ "A-" :> 0 @@ "B+" :> 12 @@ "B-" :> 1 @@
                     "O+" :> 15 @@ "O-" :> 6 @@ "AB+" :> 2 @@ "AB-" :> 0),
      distance_km |-> 28, eta_minutes |-> 12] >>

\* what searchBloodShortages may resolve to
Alerts == {"alertA", "alertB"}

\* where getCurrentPosition may place the device
Positions == {"posA", "posB"}

-----------------------------------------------------------------------------
(* handleSearch: the projection and the sort of the timer callback *)

\* .map(c => ({ ...c, units_available: c.inventory[selectedBloodType] }))
Project(c, type) == [c EXCEPT !.units_available = c.inventory[type]]

CompareDescending(a, b, key) ==
  IF key = "distance" THEN b.distance_km - a.distance_km
                      ELSE b.eta_minutes - a.eta_minutes

\* (a, b) => sortBy === 'distance' ? a.distance_km - b.distance_km
\*                                 : a.eta_minutes - b.eta_minutes
Compare(a, b, key) ==
  IF key = "distance" THEN a.distance_km - b.distance_km
                      ELSE a.eta_minutes - b.eta_minutes

\* Array.prototype.sort is stable: x goes after every element that does not
\* compare greater than it
RECURSIVE InsertOrdered(_, _, _)
InsertOrdered(x, s, key) ==
  IF s = <<>> THEN <<x>>
  ELSE IF Compare(Head(s), x, key) > 0 THEN <<x>> \o s
  ELSE <<Head(s)>> \o InsertOrdered(x, Tail(s), key)

RECURSIVE SortCenters(_, _)
SortCenters(s, key) ==
  IF s = <<>> THEN <<>>
  ELSE InsertOrdered(s[Len(s)], SortCenters(SubSeq(s, 1, Len(s) - 1), key), key)

\* updatedResults of the timer callback, for the captured type and sort key
Search(type, key) ==
  SortCenters([i \in 1..Len(MOCK_CENTERS) |-> Project(MOCK_CENTERS[i], type)], key)


-----------------------------------------------------------------------------
(* Initial state: the useState initialisers, before the mount effect *)

NoReq == [type |-> "none", sort |-> "none"]

\* InventoryManager: the useState initialiser of inventory
InitialInventory ==
  "A+" :> 15 @@ "A-" :> 5 @@ "B+" :> 12 @@ "B-" :> 3 @@
  "O+" :> 25 @@ "O-" :> 8 @@ "AB+" :> 4 @@ "AB-" :> 1

NoUpdate == [type |-> "none", delta |-> 0, before |-> 0]

\* no map has been created yet
NoCamera == [kind |-> "none", at |-> {}]

Init ==
  /\ impl \in {1, 2}
  /\ mounted = FALSE
  /\ event = "init"
  /\ selectedBloodType = "O+"
  /\ sortBy = "distance"
  /\ userLocation = Null
  /\ geo = "idle"
  /\ results = <<>>
  /\ isSearching = FALSE
  /\ searchTimers = <<>>
  /\ lastReq = NoReq
  /\ shortageAlert = Null
  /\ isCheckingShortages = FALSE
  /\ shortageCalls = <<>>
  /\ latestLookup = "none"
  /\ chatOpen = FALSE
  /\ chatHistory = <<>>
  /\ chatInput = <<>>
  /\ isTyping = FALSE
  /\ chatCalls = <<>>
  /\ uncaught = {}
  /\ activeTab = "search"
  /\ activeRole = "GUEST"
  /\ dashboardView = "main"
  /\ insight = Null
  /\ loading = FALSE
  /\ healthCalls = <<>>
  /\ mapInstance = 0
  /\ markersLayer = 0
  /\ liveMaps = {}
  /\ mapsCreated = 0
  /\ markers = <<>>
  /\ camera = NoCamera
  /\ initialPos = Null
  /\ inventory = InitialInventory
  /\ lastUpdate = NoUpdate

-----------------------------------------------------------------------------
(* BloodMap: the Leaflet map of the search tab *)

\* {activeTab === 'search' && (... <BloodMap ... /> ...)}
BloodMapMounted == mounted /\ activeTab = "search"

\* the fixed coordinate the map opens at when the position is unknown
DefaultCenter == "12.9716,77.5946"

\* [center.latitude, center.longitude] of the two catalog centers
CenterPosition(c) == IF c.id = "1" THEN "12.975,77.601" ELSE "12.980,77.610"

InitialPosDefault(loc) == DefaultCenter

\* initialPos = userLocation ? [userLocation.lat, userLocation.lng] : [12.9716, 77.5946]
InitialPos(loc) == IF loc # Null THEN loc ELSE DefaultCenter

\* L.map(container, { center: initialPos, zoom: 13 })
InitialCamera(loc) == [kind |-> "view", at |-> {InitialPos(loc)}]

\* let statusColor = 'bg-rose-500'; if (units > 10) ... else if (units > 0) ...
StatusColorFromTen(units) ==
  IF units >= 10 THEN "bg-emerald-500"
  ELSE IF units > 0 THEN "bg-amber-500"
  ELSE "bg-rose-500"

StatusColor(units) ==
  IF units > 10 THEN "bg-emerald-500"
  ELSE IF units > 0 THEN "bg-amber-500"
  ELSE "bg-rose-500"

\* the stock line of popupContent: `${selectedBloodType}: ${center.units_available}`
PopupContent(c, type) == [type |-> type, units |-> c.units_available]

\* L.marker(userPos, { icon: userIcon }).bindPopup('<b>Your Location</b>')
UserMarker(loc) ==
  [pos |-> loc, icon |-> "user-pulse", popup |-> "Your Location", stock |-> {}]

\* L.marker(pos, { icon: bloodIcon }).bindPopup(popupContent)
CenterMarker(c, type) ==
  [pos |-> CenterPosition(c), icon |-> StatusColor(c.units_available),
   popup |-> c.id, stock |-> {PopupContent(c, type)}]

CenterMarkersOnly(res, loc, type) == [i \in 1..Len(res) |-> CenterMarker(res[i], type)]

\* the markers one run of the second effect adds, in the order it adds them
AddedMarkers(res, loc, type) ==
  (IF loc # Null THEN <<UserMarker(loc)>> ELSE <<>>)
    \o [i \in 1..Len(res) |-> CenterMarker(res[i], type)]

KeepLayers(layer) == layer

\* markersLayer.current.clearLayers()
ClearLayers(layer) == <<>>

FitBoundsAlways(cam, bounds) == [kind |-> "bounds", at |-> bounds]

\* if (bounds.length > 0) mapInstance.current.fitBounds(L.latLngBounds(bounds), ...)
FitBounds(cam, bounds) ==
  IF bounds # {} THEN [kind |-> "bounds", at |-> bounds] ELSE cam

\* the second effect, run on a map reference inst, a layer reference layer
\* holding the markers ms, and a camera cam
Reconcile(inst, layer, ms, cam, res, loc, type) ==
  IF inst = 0 \/ layer = 0
  THEN [markers |-> ms, camera |-> cam]
  ELSE LET added == AddedMarkers(res, loc, type)
       IN [markers |-> ClearLayers(ms) \o added,
           camera |-> FitBounds(cam, {added[i].pos : i \in 1..Len(added)})]

\* the second effect, when a render changed results, userLocation or
\* selectedBloodType; it runs in the mounted BloodMap only
ReconcileEffect(res, loc, type) ==
  IF BloodMapMounted
  THEN LET r == Reconcile(mapInstance, markersLayer, markers, camera, res, loc, type)
       IN /\ markers' = r.markers
          /\ camera' = r.camera
          /\ UNCHANGED <<mapInstance, markersLayer, liveMaps, mapsCreated, initialPos>>
  ELSE UNCHANGED mapVars

\* if (!mapContainerRef.current || mapInstance.current) return;
InitSkipped(container, inst) == ~container \/ inst # 0

\* a BloodMap is mounted: its refs start null, the container div is attached,
\* then the first effect and the second effect run
MountBloodMap(res, loc, type) ==
  /\ mapsCreated < MaxMaps
  /\ IF InitSkipped(TRUE, 0)
     THEN /\ mapInstance' = 0
          /\ markersLayer' = 0
          /\ markers' = <<>>
          /\ UNCHANGED <<liveMaps, mapsCreated, camera, initialPos>>
     ELSE LET map == mapsCreated + 1
              r == Reconcile(map, map, <<>>, InitialCamera(loc), res, loc, type)
          IN /\ mapsCreated' = map
             /\ mapInstance' = map
             /\ markersLayer' = map
             /\ liveMaps' = liveMaps \cup {map}
             /\ markers' = r.markers
             /\ camera' = r.camera
             /\ initialPos' = InitialPos(loc)

RemoveNothing(live, inst) == live

\* mapInstance.current.remove()
RemoveMap(live, inst) == live \ {inst}

\* the cleanup of the first effect:
\* if (mapInstance.current) { mapInstance.current.remove(); mapInstance.current = null; }
UnmountBloodMap ==
  /\ liveMaps' = IF mapInstance # 0 THEN RemoveMap(liveMaps, mapInstance) ELSE liveMaps
  /\ mapInstance' = 0
  /\ UNCHANGED <<markersLayer, mapsCreated, markers, camera, initialPos>>

-----------------------------------------------------------------------------
(* Mount effect *)

GreetingText == <<"Hello! I am LifeLink AI Medical Assistant.">>

\* replyTo is a trace field: the index of the user message whose submission
\* triggered an assistant message (0: none)
Greeting == [role |-> "model", text |-> GreetingText, replyTo |-> 0]

\* implementation 1 greets in its mount effect, implementation 2 does not
MountChatHistory == IF impl = 1 THEN <<Greeting>> ELSE chatHistory

\* useEffect(() => { if (navigator.geolocation) getCurrentPosition(ok, err);
\*                   setChatHistory([greeting]) }, [])
Mount ==
  /\ ~mounted
  /\ mounted' = TRUE
  /\ event' = "Mount"
  /\ \E available \in BOOLEAN :
       geo' = IF available THEN "pending" ELSE "unavailable"
  /\ chatHistory' = MountChatHistory
  /\ MountBloodMap(results, userLocation, selectedBloodType)
  /\ UNCHANGED <<impl, searchVars, shortageVars, userLocation, chatOpen,
                 chatInput, isTyping, chatCalls, uncaught, navVars, healthVars,
                 inventoryVars>>

\* (pos) => setUserLocation({ lat: pos.coords.latitude, lng: pos.coords.longitude })
GeoSuccess(p) ==
  /\ geo = "pending"
  /\ geo' = "done"
  /\ userLocation' = p
  /\ event' = "GeoSuccess"
  /\ ReconcileEffect(results, p, selectedBloodType)
  /\ UNCHANGED <<impl, mounted, searchVars, shortageVars, chatVars, uncaught,
                 navVars, healthVars,
                 inventoryVars>>

GeoErrorRetries ==
  /\ geo = "pending"
  /\ geo' = "pending"
  /\ event' = "GeoError"
  /\ UNCHANGED <<impl, mounted, searchVars, shortageVars, userLocation, chatVars,
                 uncaught, navVars, healthVars, mapVars,
                 inventoryVars>>

\* (err) => console.error("Location access denied", err)
GeoError ==
  /\ geo = "pending"
  /\ geo' = "failed"
  /\ event' = "GeoError"
  /\ UNCHANGED <<impl, mounted, searchVars, shortageVars, userLocation, chatVars,
                 uncaught, navVars, healthVars,
                 mapVars,
                 inventoryVars>>

-----------------------------------------------------------------------------
(* Search form *)

\* <select value={selectedBloodType} onChange={... setSelectedBloodType(...)}>
SelectBloodType(t) ==
  /\ mounted
  /\ activeTab = "search"
  /\ selectedBloodType' = t
  /\ event' = "SelectBloodType"
  /\ IF t # selectedBloodType
     THEN ReconcileEffect(results, userLocation, t)
     ELSE UNCHANGED mapVars
  /\ UNCHANGED <<impl, mounted, sortBy, results, isSearching, searchTimers, lastReq,
                 shortageVars, geoVars, chatVars, uncaught, navVars, healthVars,
                 inventoryVars>>

\* onClick={() => setSortBy('distance')} / onClick={() => setSortBy('eta')}
SetSortBy(k) ==
  /\ mounted
  /\ activeTab = "search"
  /\ sortBy' = k
  /\ event' = "SetSortBy"
  /\ UNCHANGED <<impl, mounted, selectedBloodType, results, isSearching, searchTimers,
                 lastReq, shortageVars, geoVars, chatVars, uncaught, navVars,
                 healthVars,
                 mapVars,
                 inventoryVars>>

SearchAlwaysEnabled == TRUE

\* <button onClick={handleSearch} disabled={isSearching}>
SearchEnabled == ~isSearching

\* the selectedBloodType and sortBy the timer callback closes over: those of
\* the render in which handleSearch was called
CapturedRequest == [type |-> selectedBloodType, sort |-> sortBy]

TimerResultsLive(timer) == Search(selectedBloodType, sortBy)

\* updatedResults, computed by the callback from what it closed over
TimerResults(timer) == Search(timer.type, timer.sort)

\* superseded is a trace field: a later request or lookup has been issued
Supersede(calls) == [i \in 1..Len(calls) |-> [calls[i] EXCEPT !.superseded = TRUE]]

\* the shortage lookup handleSearch starts (implementation 1 only)
StartShortageLookup ==
  IF impl = 1
  THEN /\ Len(shortageCalls) < MaxLookups
       /\ isCheckingShortages' = TRUE
       /\ shortageAlert' = Null
       /\ shortageCalls' = Append(Supersede(shortageCalls), [superseded |-> FALSE])
       /\ latestLookup' = "pending"
  ELSE UNCHANGED shortageVars

\* handleSearch, up to and including setTimeout(..., 1000)
HandleSearch ==
  /\ mounted
  /\ activeTab = "search"
  /\ SearchEnabled
  /\ Len(searchTimers) < MaxTimers
  /\ isSearching' = TRUE
  /\ StartShortageLookup
  /\ searchTimers' = Append(Supersede(searchTimers),
                            [type |-> CapturedRequest.type,
                             sort |-> CapturedRequest.sort,
                             superseded |-> FALSE])
  /\ lastReq' = CapturedRequest
  /\ event' = "HandleSearch"
  /\ UNCHANGED <<impl, mounted, selectedBloodType, sortBy, results, geoVars, chatVars,
                 uncaught, navVars, healthVars,
                 mapVars,
                 inventoryVars>>

\* the setTimeout callback; equal delays fire in the order they were set
SearchTimerFire ==
  /\ searchTimers # <<>>
  /\ results' = TimerResults(Head(searchTimers))
  /\ isSearching' = FALSE
  /\ searchTimers' = Tail(searchTimers)
  /\ event' = "SearchTimerFire"
  /\ ReconcileEffect(TimerResults(Head(searchTimers)), userLocation, selectedBloodType)
  /\ UNCHANGED <<impl, mounted, selectedBloodType, sortBy, lastReq, shortageVars,
                 geoVars, chatVars, uncaught, navVars, healthVars,
                 inventoryVars>>

RemoveAt(s, i) == SubSeq(s, 1, i - 1) \o SubSeq(s, i + 1, Len(s))

\* .then(res => { setShortageAlert(res); setIsCheckingShortages(false); })
ShortageResolve(i, alert) ==
  /\ i \in 1..Len(shortageCalls)
  /\ shortageAlert' = alert
  /\ isCheckingShortages' = FALSE
  /\ shortageCalls' = RemoveAt(shortageCalls, i)
  /\ latestLookup' = IF shortageCalls[i].superseded THEN latestLookup ELSE alert
  /\ event' = "ShortageResolve"
  /\ UNCHANGED <<impl, mounted, searchVars, geoVars, chatVars, uncaught, navVars,
                 healthVars,
                 mapVars,
                 inventoryVars>>

ShortageRejectShowsError(i) ==
  /\ i \in 1..Len(shortageCalls)
  /\ shortageAlert' = "error"
  /\ isCheckingShortages' = FALSE
  /\ shortageCalls' = RemoveAt(shortageCalls, i)
  /\ latestLookup' = IF shortageCalls[i].superseded THEN latestLookup ELSE "failed"
  /\ event' = "ShortageReject"
  /\ UNCHANGED <<impl, mounted, searchVars, geoVars, chatVars, uncaught, navVars,
                 healthVars,
                 mapVars,
                 inventoryVars>>

\* .catch(err => { console.error(...); setIsCheckingShortages(false); })
ShortageReject(i) ==
  /\ i \in 1..Len(shortageCalls)
  /\ isCheckingShortages' = FALSE
  /\ shortageCalls' = RemoveAt(shortageCalls, i)
  /\ latestLookup' = IF shortageCalls[i].superseded THEN latestLookup ELSE "failed"
  /\ event' = "ShortageReject"
  /\ UNCHANGED <<impl, mounted, searchVars, shortageAlert, geoVars, chatVars, uncaught,
                 navVars, healthVars,
                 mapVars,
                 inventoryVars>>

NextSearch ==
  \/ Mount
  \/ \E t \in BloodTypes : SelectBloodType(t)
  \/ \E k \in SortKeys : SetSortBy(k)
  \/ HandleSearch
  \/ SearchTimerFire
  \/ \E i \in 1..MaxLookups, a \in Alerts : ShortageResolve(i, a)
  \/ \E i \in 1..MaxLookups : ShortageReject(i)

\* the search form, the search timer and the shortage lookup
SpecSearch == Init /\ [][NextSearch]_vars

-----------------------------------------------------------------------------
(* Chat widget *)

\* the characters typed into the chat input: a blank and a letter
Chars == {" ", "a"}

\* the inputs typed: blanks, and one letter with blanks before or after it
ChatInputs ==
  {s \in UNION {[1..n -> Chars] : n \in 0..MaxLen} :
     Cardinality({i \in 1..Len(s) : s[i] = "a"}) <= 1}

IsWhitespace(ch) == ch = " "

RECURSIVE TrimStart(_)
TrimStart(s) ==
  IF s # <<>> /\ IsWhitespace(Head(s)) THEN TrimStart(Tail(s)) ELSE s

RECURSIVE TrimEnd(_)
TrimEnd(s) ==
  IF s # <<>> /\ IsWhitespace(s[Len(s)]) THEN TrimEnd(SubSeq(s, 1, Len(s) - 1)) ELSE s

\* String.prototype.trim
Trim(s) == TrimEnd(TrimStart(s))

\* what getBloodBotResponse may resolve to: an empty text or an answer
Replies == {<<>>, <<"answer">>}

\* response || 'Error reaching assistant.'  /  response || 'Error'
FallbackText == IF impl = 1 THEN <<"Error reaching assistant.">> ELSE <<"Error">>

\* onClick={() => setChatOpen(!chatOpen)}
ToggleChat ==
  /\ mounted
  /\ chatOpen' = ~chatOpen
  /\ event' = "ToggleChat"
  /\ UNCHANGED <<impl, mounted, searchVars, shortageVars, geoVars, chatHistory,
                 chatInput, isTyping, chatCalls, uncaught, navVars, healthVars,
                 mapVars,
                 inventoryVars>>

\* <input value={chatInput} onChange={e => setChatInput(e.target.value)} />
SetChatInput(s) ==
  /\ mounted
  /\ chatOpen
  /\ chatInput' = s
  /\ event' = "SetChatInput"
  /\ UNCHANGED <<impl, mounted, searchVars, shortageVars, geoVars, chatOpen,
                 chatHistory, isTyping, chatCalls, uncaught, navVars, healthVars,
                 mapVars,
                 inventoryVars>>

PrependMessage(log, msg) == <<msg>> \o log

\* setChatHistory(prev => [...prev, msg])
AppendMessage(log, msg) == Append(log, msg)

\* the user messages in the log
UserMessages == Cardinality({i \in 1..Len(chatHistory) : chatHistory[i].role = "user"})

SubmitIgnoredUntrimmed == chatInput = <<>>

\* if (!chatInput.trim()) return;
SubmitIgnored == Trim(chatInput) = <<>>

\* handleChatSubmit, up to the await; userIdx is a trace field, the place of
\* the user message in the log
HandleChatSubmit ==
  /\ mounted
  /\ chatOpen
  /\ event' = "ChatSubmit"
  /\ IF SubmitIgnored
     THEN UNCHANGED <<chatHistory, chatInput, isTyping, chatCalls>>
     ELSE /\ UserMessages < MaxSubmits
          /\ chatHistory' = AppendMessage(chatHistory,
                                          [role |-> "user", text |-> chatInput,
                                           replyTo |-> 0])
          /\ chatInput' = <<>>
          /\ isTyping' = TRUE
          /\ chatCalls' = Append(chatCalls,
                                 [input |-> chatInput, userIdx |-> Len(chatHistory) + 1])
  /\ UNCHANGED <<impl, mounted, searchVars, shortageVars, geoVars, chatOpen, uncaught,
                 navVars, healthVars,
                 mapVars,
                 inventoryVars>>

ChatResolveClearsInput(i, reply) ==
  /\ i \in 1..Len(chatCalls)
  /\ chatHistory' = AppendMessage(chatHistory,
                                  [role |-> "model",
                                   text |-> IF reply = <<>> THEN FallbackText ELSE reply,
                                   replyTo |-> chatCalls[i].userIdx])
  /\ chatInput' = <<>>
  /\ isTyping' = FALSE
  /\ chatCalls' = RemoveAt(chatCalls, i)
  /\ event' = "ChatResolve"
  /\ UNCHANGED <<impl, mounted, searchVars, shortageVars, geoVars, chatOpen,
                 uncaught, navVars, healthVars, mapVars,
                 inventoryVars>>

\* the continuation after the await when the call resolves, then the finally
ChatResolve(i, reply) ==
  /\ i \in 1..Len(chatCalls)
  /\ chatHistory' = AppendMessage(chatHistory,
                                  [role |-> "model",
                                   text |-> IF reply = <<>> THEN FallbackText ELSE reply,
                                   replyTo |-> chatCalls[i].userIdx])
  /\ isTyping' = FALSE
  /\ chatCalls' = RemoveAt(chatCalls, i)
  /\ event' = "ChatResolve"
  /\ UNCHANGED <<impl, mounted, searchVars, shortageVars, geoVars, chatOpen, chatInput,
                 uncaught, navVars, healthVars,
                 mapVars,
                 inventoryVars>>

\* the call rejects: try has no catch, finally runs, and the rejection leaves
\* handleChatSubmit through the promise it returned, which nobody handles
ChatReject(i) ==
  /\ i \in 1..Len(chatCalls)
  /\ isTyping' = FALSE
  /\ chatCalls' = RemoveAt(chatCalls, i)
  /\ uncaught' = uncaught \cup {"handleChatSubmit"}
  /\ event' = "ChatReject"
  /\ UNCHANGED <<impl, mounted, searchVars, shortageVars, geoVars, chatOpen,
                 chatHistory, chatInput, navVars, healthVars,
                 mapVars,
                 inventoryVars>>

NextChat ==
  \/ Mount
  \/ ToggleChat
  \/ \E s \in ChatInputs : SetChatInput(s)
  \/ HandleChatSubmit
  \/ \E i \in 1..MaxSubmits, reply \in Replies : ChatResolve(i, reply)
  \/ \E i \in 1..MaxSubmits : ChatReject(i)

\* the chat widget and the assistant calls
SpecChat == Init /\ [][NextChat]_vars

\* the second implementation, whose chat log starts empty
InitSecond == Init /\ impl = 2

\* the chat widget of the second implementation
SpecChatSecond == InitSecond /\ [][NextChat]_vars

-----------------------------------------------------------------------------
(* Navigation and the Health Insights tab *)

Roles == {"ADMIN", "DONOR", "PATIENT", "STAFF", "GUEST"}

\* the tabs the header offers
Tabs == IF impl = 1 THEN {"search", "health", "dashboard"} ELSE {"search", "dashboard"}

Topics == {"Post-Donation Care", "Iron & Nutrition", "Understanding Anemia",
           "Blood Compatibility"}

\* orphan is a trace field: the HealthCenter that started the call is unmounted
Orphan(calls) == [i \in 1..Len(calls) |-> [calls[i] EXCEPT !.orphan = TRUE]]

\* {activeTab === 'health' && <HealthCenter />}: leaving the tab unmounts the
\* component and drops its state; its unsettled calls stay in flight
LeaveOrStayHealth(tab) ==
  IF activeTab = "health" /\ tab # "health"
  THEN /\ insight' = Null
       /\ loading' = FALSE
       /\ healthCalls' = Orphan(healthCalls)
  ELSE UNCHANGED healthVars

\* the search tab is left: its BloodMap unmounts; it is entered: a new
\* BloodMap mounts
LeaveOrEnterSearch(tab) ==
  IF activeTab = "search" /\ tab # "search" THEN UnmountBloodMap
  ELSE IF activeTab # "search" /\ tab = "search"
       THEN MountBloodMap(results, userLocation, selectedBloodType)
  ELSE UNCHANGED mapVars

\* header buttons: setActiveTab(tab); setDashboardView('main') (implementation 1)
SetActiveTab(tab) ==
  /\ mounted
  /\ tab \in Tabs
  /\ activeTab' = tab
  /\ dashboardView' = "main"
  /\ LeaveOrStayHealth(tab)
  /\ LeaveOrEnterSearch(tab)
  /\ event' = "SetActiveTab"
  /\ UNCHANGED <<impl, mounted, searchVars, shortageVars, geoVars, chatVars, uncaught,
                 activeRole,
                 inventoryVars>>

\* Dashboard card "Medical Assistance": onClick={() => onNavigate('health')}
NavigateHealth ==
  /\ mounted
  /\ impl = 1
  /\ activeTab = "dashboard"
  /\ dashboardView = "main"
  /\ activeRole # "GUEST"
  /\ activeTab' = "health"
  /\ event' = "NavigateHealth"
  /\ UNCHANGED <<impl, mounted, searchVars, shortageVars, geoVars, chatVars, uncaught,
                 activeRole, dashboardView, healthVars,
                 mapVars,
                 inventoryVars>>

SetActiveRoleKeepsView(role) ==
  /\ mounted
  /\ activeRole' = role
  /\ event' = "SetActiveRole"
  /\ UNCHANGED <<impl, mounted, searchVars, shortageVars, geoVars, chatVars, uncaught,
                 activeTab, dashboardView, healthVars, mapVars,
                 inventoryVars>>

\* role select: setActiveRole(role); setDashboardView('main') (implementation 1)
SetActiveRole(role) ==
  /\ mounted
  /\ activeRole' = role
  /\ dashboardView' = "main"
  /\ event' = "SetActiveRole"
  /\ UNCHANGED <<impl, mounted, searchVars, shortageVars, geoVars, chatVars, uncaught,
                 activeTab, healthVars,
                 mapVars,
                 inventoryVars>>

\* Dashboard card "Manage Inventory": onClick={() => onInternalView('inventory')}
OpenInventory ==
  /\ mounted
  /\ impl = 1
  /\ activeTab = "dashboard"
  /\ dashboardView = "main"
  /\ activeRole \in {"STAFF", "ADMIN"}
  /\ dashboardView' = "inventory"
  /\ inventory' = InitialInventory
  /\ lastUpdate' = NoUpdate
  /\ event' = "OpenInventory"
  /\ UNCHANGED <<impl, mounted, searchVars, shortageVars, geoVars, chatVars, uncaught,
                 activeTab, activeRole, healthVars, mapVars>>

\* InventoryManager onBack={() => setDashboardView('main')}
InventoryBack ==
  /\ mounted
  /\ impl = 1
  /\ activeTab = "dashboard"
  /\ dashboardView = "inventory"
  /\ dashboardView' = "main"
  /\ event' = "InventoryBack"
  /\ UNCHANGED <<impl, mounted, searchVars, shortageVars, geoVars, chatVars, uncaught,
                 activeTab, activeRole, healthVars,
                 mapVars,
                 inventoryVars>>

\* <InventoryManager /> is rendered in place of the Dashboard
InventoryManagerMounted ==
  mounted /\ impl = 1 /\ activeTab = "dashboard" /\ dashboardView = "inventory"

SecondOf(a, b) == b

\* Math.max(a, b)
MathMax(a, b) == IF a > b THEN a ELSE b

\* updateUnits(type, delta), from the - and + buttons of a blood type's card:
\* setInventory(prev => ({ ...prev, [type]: Math.max(0, prev[type] + delta) }))
UpdateUnits(type, delta) ==
  /\ InventoryManagerMounted
  /\ inventory[type] + delta <= MaxStock
  /\ inventory' = [inventory EXCEPT ![type] = MathMax(0, inventory[type] + delta)]
  /\ lastUpdate' = [type |-> type, delta |-> delta, before |-> inventory[type]]
  /\ event' = "UpdateUnits"
  /\ UNCHANGED <<impl, mounted, searchVars, shortageVars, geoVars, chatVars, uncaught,
                 navVars, healthVars, mapVars>>

\* fetchTopic, up to the await
FetchTopic(topic) ==
  /\ mounted
  /\ impl = 1
  /\ activeTab = "health"
  /\ Len(healthCalls) < MaxHealthCalls
  /\ loading' = TRUE
  /\ healthCalls' = Append(healthCalls, [topic |-> topic, orphan |-> FALSE])
  /\ event' = "FetchTopic"
  /\ UNCHANGED <<impl, mounted, searchVars, shortageVars, geoVars, chatVars, uncaught,
                 navVars, insight,
                 mapVars,
                 inventoryVars>>

\* setInsight(data); setLoading(false): no effect once the component is unmounted
HealthResolve(i) ==
  /\ i \in 1..Len(healthCalls)
  /\ IF healthCalls[i].orphan
     THEN UNCHANGED <<insight, loading>>
     ELSE /\ insight' = healthCalls[i].topic
          /\ loading' = FALSE
  /\ healthCalls' = RemoveAt(healthCalls, i)
  /\ event' = "HealthResolve"
  /\ UNCHANGED <<impl, mounted, searchVars, shortageVars, geoVars, chatVars, uncaught,
                 navVars,
                 mapVars,
                 inventoryVars>>

\* the await throws: fetchTopic has no try, so nothing after it runs and the
\* rejection leaves through the promise fetchTopic returned
HealthReject(i) ==
  /\ i \in 1..Len(healthCalls)
  /\ healthCalls' = RemoveAt(healthCalls, i)
  /\ uncaught' = uncaught \cup {"fetchTopic"}
  /\ event' = "HealthReject"
  /\ UNCHANGED <<impl, mounted, searchVars, shortageVars, geoVars, chatVars, navVars,
                 insight, loading,
                 mapVars,
                 inventoryVars>>

NextPortal ==
  \/ Mount
  \/ \E p \in Positions : GeoSuccess(p)
  \/ GeoError
  \/ \E tab \in {"search", "health", "dashboard"} : SetActiveTab(tab)
  \/ NavigateHealth
  \/ \E role \in Roles : SetActiveRole(role)
  \/ OpenInventory
  \/ InventoryBack
  \/ \E topic \in Topics : FetchTopic(topic)
  \/ \E i \in 1..MaxHealthCalls : HealthResolve(i)
  \/ \E i \in 1..MaxHealthCalls : HealthReject(i)

\* geolocation, navigation and the Health Insights tab
SpecPortal == Init /\ [][NextPortal]_vars

\* the blood types restocked: the three scarcest ones (1, 3 and 4 units)
InventoryTypes == {"AB-", "B-", "AB+"}

NextInventory ==
  \/ Mount
  \/ \E tab \in {"search", "health", "dashboard"} : SetActiveTab(tab)
  \/ \E role \in Roles : SetActiveRole(role)
  \/ OpenInventory
  \/ InventoryBack
  \/ \E type \in InventoryTypes, delta \in {-1, 1} : UpdateUnits(type, delta)

\* the dashboard with its inventory manager
SpecInventory == Init /\ [][NextInventory]_vars

Next == NextSearch \/ NextChat \/ NextPortal \/ NextInventory

\* the whole application
Spec == Init /\ [][Next]_vars

\* the blood types chosen while the map is watched: O+ is in good supply at
\* both centers (20 and 15 units), A- is low at one (5) and out at the other (0)
MapBloodTypes == {"O+", "A-"}

NextMap ==
  \/ Mount
  \/ \E p \in Positions : GeoSuccess(p)
  \/ GeoError
  \/ \E t \in MapBloodTypes : SelectBloodType(t)
  \/ HandleSearch
  \/ SearchTimerFire
  \/ \E i \in 1..MaxLookups, a \in Alerts : ShortageResolve(i, a)
  \/ \E i \in 1..MaxLookups : ShortageReject(i)
  \/ \E tab \in {"search", "health", "dashboard"} : SetActiveTab(tab)

\* the search tab with its map: geolocation, searches and tab changes
SpecMap == Init /\ [][NextMap]_vars

-----------------------------------------------------------------------------
(* BloodMap on its own: the component for any results it may be handed *)

\* center i of the catalog, holding u units of the type searched for
CenterWith(i, u) == [MOCK_CENTERS[i] EXCEPT !.units_available = u]

\* the results prop: no center, the first center, or both, with any stock
ResultsProps ==
  {<<>>}
    \cup {<<CenterWith(1, u)>> : u \in 0..MaxUnits}
    \cup {<<CenterWith(1, u), CenterWith(2, v)>> : u, v \in 0..MaxUnits}

\* <BloodMap results={results} ... />: the mounted component is rendered with
\* another results prop, and its second effect runs
RenderResults(res) ==
  /\ BloodMapMounted
  /\ results' = res
  /\ event' = "RenderResults"
  /\ ReconcileEffect(res, userLocation, selectedBloodType)
  /\ UNCHANGED <<impl, mounted, selectedBloodType, sortBy, isSearching, searchTimers,
                 lastReq, shortageVars, geoVars, chatVars, uncaught, navVars,
                 healthVars,
                 inventoryVars>>

NextBloodMap ==
  \/ Mount
  \/ \E p \in Positions : GeoSuccess(p)
  \/ GeoError
  \/ \E t \in MapBloodTypes : SelectBloodType(t)
  \/ \E res \in ResultsProps : RenderResults(res)

\* the BloodMap component under every change of its three props
SpecBloodMap == Init /\ [][NextBloodMap]_vars

-----------------------------------------------------------------------------
(* The asynchronous operations side by side *)

\* one message to type and one answer to get: what is said does not matter
\* to which state a callback writes
AsyncChatInputs == {<<"a">>}

AsyncReplies == {<<"answer">>}

NextAsync ==
  \/ Mount
  \/ \E p \in Positions : GeoSuccess(p)
  \/ GeoError
  \/ HandleSearch
  \/ SearchTimerFire
  \/ \E i \in 1..MaxLookups, a \in Alerts : ShortageResolve(i, a)
  \/ \E i \in 1..MaxLookups : ShortageReject(i)
  \/ ToggleChat
  \/ \E s \in AsyncChatInputs : SetChatInput(s)
  \/ HandleChatSubmit
  \/ \E i \in 1..MaxSubmits, reply \in AsyncReplies : ChatResolve(i, reply)
  \/ \E i \in 1..MaxSubmits : ChatReject(i)

\* search timer, shortage lookup, assistant call and geolocation in flight
\* together
SpecAsync == Init /\ [][NextAsync]_vars

-----------------------------------------------------------------------------
(* What the search tab shows for a center of the result set *)

\* {activeTab === 'search' && ...}: the cards and the map render results.map(...)
ShownCenters == IF activeTab = "search" THEN results ELSE <<>>

\* result card: {selectedBloodType}: {c.units_available} UNITS
CardLabel(c) == [type |-> selectedBloodType, units |-> c.units_available]

\* map popup: ${selectedBloodType}: ${center.units_available}
PopupStock(c) == [type |-> selectedBloodType, units |-> c.units_available]

-----------------------------------------------------------------------------
(* Claims about the search pipeline, checked under SpecSearch *)

C1_Settled ==
  (searchTimers = <<>> /\ lastReq # NoReq)
    => results = Search(lastReq.type, lastReq.sort)

C1_Applied ==
  event' = "SearchTimerFire"
    => /\ ~Head(searchTimers).superseded
       /\ results' = Search(lastReq.type, lastReq.sort)

\* C1: last-request-wins. Every search timer that fires belongs to the most
\* recently issued request (never to a superseded one) and writes that
\* request's result to results; whenever no search is pending, results is the
\* result of the last issued request.
C1_LastRequestWins == []C1_Settled /\ [][C1_Applied]_vars

\* a second search (its shortage lookup and the first one's are both still
\* unsettled) for another blood type has been applied
C1_Witness ==
  /\ event = "SearchTimerFire"
  /\ searchTimers = <<>>
  /\ Len(shortageCalls) = 2
  /\ lastReq.type # "O+"
  /\ results = Search(lastReq.type, lastReq.sort)

\* C2: when a search timer fires, every center of the result set it applies
\* carries inventory[t] for the blood type t selected when the request was
\* issued, whatever was selected while it was in flight.
C2_UnitsOfIssuedType ==
  [][event' = "SearchTimerFire"
       => /\ results' # <<>>
          /\ \A i \in 1..Len(results') :
               results'[i].units_available = results'[i].inventory[lastReq.type]]_vars

\* the blood type was changed while the search was in flight, then it resolved
C2_Witness ==
  /\ event = "SearchTimerFire"
  /\ selectedBloodType # lastReq.type
  /\ results # <<>>

\* C3: every center shown carries, beside the currently selected blood type,
\* that center's inventory[selectedBloodType], in the card and in the popup.
C3_DisplayedUnitsOfSelectedType ==
  \A i \in 1..Len(ShownCenters) :
    /\ CardLabel(ShownCenters[i]).units
         = ShownCenters[i].inventory[CardLabel(ShownCenters[i]).type]
    /\ PopupStock(ShownCenters[i]).units
         = ShownCenters[i].inventory[PopupStock(ShownCenters[i]).type]

C4_Key(c, key) == IF key = "distance" THEN c.distance_km ELSE c.eta_minutes

C4_CatalogIndex(id) == CHOOSE i \in 1..Len(MOCK_CENTERS) : MOCK_CENTERS[i].id = id

\* C4: the result set of search(type, key) is the whole catalog, each center
\* with inventory[type] units, ascending by distance_km (key = distance) or by
\* eta_minutes (key = eta), ties in catalog order; for O+ by distance it is
\* [center 1 with 20 units, center 2 with 15 units].
C4_SearchResult ==
  (searchTimers = <<>> /\ lastReq # NoReq) =>
    /\ Len(results) = Len(MOCK_CENTERS)
    /\ \A k \in 1..Len(MOCK_CENTERS) :
         \E i \in 1..Len(results) :
           results[i] = [MOCK_CENTERS[k] EXCEPT
                           !.units_available = MOCK_CENTERS[k].inventory[lastReq.type]]
    /\ \A i, j \in 1..Len(results) :
         i < j =>
           /\ C4_Key(results[i], lastReq.sort) <= C4_Key(results[j], lastReq.sort)
           /\ C4_Key(results[i], lastReq.sort) = C4_Key(results[j], lastReq.sort)
                => C4_CatalogIndex(results[i].id) < C4_CatalogIndex(results[j].id)
    /\ lastReq = [type |-> "O+", sort |-> "distance"]
         => /\ [i \in 1..Len(results) |-> results[i].id] = <<"1", "2">>
            /\ [i \in 1..Len(results) |-> results[i].units_available] = <<20, 15>>

\* the O+ search by distance has been applied
C4_Witness ==
  /\ event = "SearchTimerFire"
  /\ searchTimers = <<>>
  /\ lastReq = [type |-> "O+", sort |-> "distance"]
  /\ Len(results) = 2

C5_Settled ==
  (shortageCalls = <<>> /\ latestLookup # "none")
    => shortageAlert = IF latestLookup = "failed" THEN Null ELSE latestLookup

C5_NoStaleWrite ==
  \A i \in 1..Len(shortageCalls) :
    (/\ event' = "ShortageResolve"
     /\ shortageCalls' = RemoveAt(shortageCalls, i)
     /\ shortageCalls[i].superseded)
      => shortageAlert' = shortageAlert

\* C5: only the most recent shortage lookup's result is kept. A lookup that
\* settles after a newer one was started never writes shortageAlert, and once
\* every lookup has settled shortageAlert is the outcome of the newest one.
C5_LatestLookupKept == []C5_Settled /\ [][C5_NoStaleWrite]_vars

-----------------------------------------------------------------------------
(* Claims about the chat session, checked under SpecChat *)

\* C6: at most one assistant call is outstanding at any time.
C6_OneCallOutstanding == Len(chatCalls) <= 1

C7_UserBefore(i) == {j \in 1..(i - 1) : chatHistory[j].role = "user"}

\* C7: every assistant message of the log has a user message before it, and
\* the nearest user message before it is the one whose submission triggered it.
C7_ReplyFollowsItsInput ==
  \A i \in 1..Len(chatHistory) :
    chatHistory[i].role = "model"
      => /\ C7_UserBefore(i) # {}
         /\ \A j \in C7_UserBefore(i) :
              (\A k \in C7_UserBefore(i) : k <= j) => chatHistory[i].replyTo = j

C8_Rejected(i) ==
  /\ event' = "ChatReject"
  /\ i \in 1..Len(chatCalls)
  /\ chatCalls' = RemoveAt(chatCalls, i)

\* C8: when the assistant call rejects, a fallback assistant message is
\* appended, isTyping is cleared, and the submitted user message is in the log
\* once (nothing else is added or removed).
C8_RejectAppendsFallback ==
  [][\A i \in 1..MaxSubmits :
       C8_Rejected(i)
         => /\ chatHistory' = Append(chatHistory,
                                     [role |-> "model", text |-> FallbackText,
                                      replyTo |-> chatCalls[i].userIdx])
            /\ ~isTyping'
            /\ chatHistory'[chatCalls[i].userIdx] =
                 [role |-> "user", text |-> chatCalls[i].input, replyTo |-> 0]]_vars

\* C9: no rejection of an asynchronous collaborator call leaves the handler
\* that started it uncaught.
C9_NoUncaughtRejection == uncaught = {}

\* C10: submitting an empty or whitespace-only input changes neither the log,
\* the input nor isTyping, and issues no assistant call.
C10_BlankSubmitIsNoOp ==
  [][(event' = "ChatSubmit" /\ Trim(chatInput) = <<>>)
       => UNCHANGED <<chatHistory, chatInput, isTyping, chatCalls>>]_vars

\* a whitespace-only input has been submitted
C10_Witness ==
  /\ event = "ChatSubmit"
  /\ chatInput # <<>>
  /\ Trim(chatInput) = <<>>

IsPrefix(s, t) == Len(s) <= Len(t) /\ SubSeq(t, 1, Len(s)) = s

\* C11: the chat log is append-only: across every transition the previous
\* chatHistory is a prefix of the next one, so no message already in the log
\* is removed, reordered or changed.
C11_AppendOnly == [][IsPrefix(chatHistory, chatHistory')]_vars

\* a reply has been appended to a log of several messages while another
\* submission is still waiting for its reply
C11_Witness ==
  /\ event = "ChatResolve"
  /\ chatCalls # <<>>
  /\ Len(chatHistory) >= 3

-----------------------------------------------------------------------------
(* Claims: failures, the map view, loading indicators *)

C13_CreatedOncePerMount ==
  /\ [](Cardinality(liveMaps) <= 1)
  /\ [](BloodMapMounted
          => /\ mapInstance # 0
             /\ markersLayer = mapInstance
             /\ liveMaps = {mapInstance})
  /\ [][/\ (~BloodMapMounted /\ BloodMapMounted') <=> mapsCreated' = mapsCreated + 1
        /\ mapsCreated' \in {mapsCreated, mapsCreated + 1}
        /\ (BloodMapMounted /\ BloodMapMounted')
             => UNCHANGED <<mapInstance, markersLayer, liveMaps>>]_vars

\* the search tab has been left and entered again, and the results of a
\* search have been drawn on the second map
C13_Witness ==
  /\ event = "SearchTimerFire"
  /\ BloodMapMounted
  /\ mapInstance = 2
  /\ liveMaps = {2}
  /\ markers # <<>>

\* C14: whenever the map is Ready and reconciled, the marker layer holds one
\* marker for the known user location (none when it is unknown) plus one
\* marker per center in results.
C14_MarkerCount ==
  BloodMapMounted
    => Len(markers) = (IF userLocation # Null THEN 1 ELSE 0) + Len(results)

\* the position is known and a result set is drawn, after an earlier
\* reconciliation had already put markers on the layer
C14_Witness ==
  /\ event = "SearchTimerFire"
  /\ BloodMapMounted
  /\ userLocation # Null
  /\ Len(results) = 2
  /\ Len(markers) = 3

C15_Inputs ==
  [res : {<<>>} \cup {Search(t, k) : t \in BloodTypes, k \in SortKeys},
   loc : Positions \cup {Null},
   type : BloodTypes]

C15_Once(in) ==
  Reconcile(mapInstance, markersLayer, markers, camera, in.res, in.loc, in.type)

C15_Twice(in) ==
  Reconcile(mapInstance, markersLayer, C15_Once(in).markers, C15_Once(in).camera,
            in.res, in.loc, in.type)

\* C15: reconciliation is idempotent: from any state of the map, and for any
\* results, userLocation and selectedBloodType, running the reconciliation
\* a second time with the same inputs leaves the markers and the camera as
\* the first run left them; a search that delivers the results already shown
\* changes neither.
C15_Idempotent ==
  /\ [](\A in \in C15_Inputs : C15_Twice(in) = C15_Once(in))
  /\ [][(event' = "SearchTimerFire" /\ results' = results /\ BloodMapMounted)
          => UNCHANGED <<markers, camera>>]_vars

\* a Ready map showing the user and the centers, fitted to them, on which the
\* reconciliation has run for a result set equal to the one already drawn
C15_Witness ==
  /\ event = "SearchTimerFire"
  /\ BloodMapMounted
  /\ userLocation # Null
  /\ Len(markers) = 3
  /\ camera.kind = "bounds"
  /\ lastReq.type = selectedBloodType
  /\ C15_Once([res |-> results, loc |-> userLocation, type |-> selectedBloodType])
       = [markers |-> markers, camera |-> camera]

\* C17: once the BloodMap has been torn down nothing of it is left: the map
\* is removed and both the map reference and the marker-layer reference are
\* null.
C17_TeardownClearsAll ==
  (mounted /\ ~BloodMapMounted)
    => /\ liveMaps = {}
       /\ mapInstance = 0
       /\ markersLayer = 0

C16_NoPosition == geo \in {"failed", "unavailable"}

\* C16: the device position is requested in the mount effect and nowhere
\* else, once when the capability exists; when the request fails or the
\* capability is missing, userLocation is null in every later state, the
\* failure callback changes nothing else of the session, and no request is
\* outstanding or made afterwards.
C16_PositionRequestedOnce ==
  /\ [](C16_NoPosition => userLocation = Null)
  /\ [][/\ (geo' = "pending" /\ geo # "pending") => (event' = "Mount" /\ geo = "idle")
        /\ event' = "Mount" => geo' \in {"pending", "unavailable"}
        /\ C16_NoPosition => geo' = geo
        /\ event' = "GeoError"
             => /\ geo' = "failed"
                /\ UNCHANGED <<impl, mounted, userLocation, searchVars, shortageVars,
                               chatVars, uncaught, navVars, healthVars, mapVars,
                 inventoryVars>>]_vars

\* the request failed; later the search tab was left and entered again, and
\* the new map opened at the default coordinate
C16_Witness ==
  /\ geo = "failed"
  /\ event = "SetActiveTab"
  /\ mapInstance = 2
  /\ userLocation = Null
  /\ camera = InitialCamera(Null)

\* C18: no loading indicator outlives its calls: once every search timer,
\* shortage lookup, assistant call or health-insight call behind an indicator
\* has settled, by success or by failure, that indicator is false.
C18_IndicatorsSettle ==
  /\ searchTimers = <<>> => ~isSearching
  /\ shortageCalls = <<>> => ~isCheckingShortages
  /\ chatCalls = <<>> => ~isTyping
  /\ (\A i \in 1..Len(healthCalls) : healthCalls[i].orphan) => ~loading

\* C19: while an assistant call is outstanding isTyping is true.
C19_TypingWhileOutstanding == chatCalls # <<>> => isTyping

\* C20: while a shortage lookup is outstanding isCheckingShortages is true,
\* so the flag is never false while the lookup of the latest search is
\* unresolved; when the flag is false the alert shown is null or the alert of
\* the lookup that settled last.
C20_TriState ==
  /\ [](shortageCalls # <<>> => isCheckingShortages)
  /\ [][~isCheckingShortages'
          => \/ shortageAlert' = Null
             \/ shortageAlert' = shortageAlert
             \/ event' = "ShortageResolve"]_vars

-----------------------------------------------------------------------------
(* Claims: search in flight, the map's markers and camera, state slices,
   the dashboard *)

\* C21: isSearching is true exactly while a search timer is pending, at most
\* one timer is pending, and results change only in the step in which the
\* timer fires, which sets them to the outcome of its own request and clears
\* isSearching in the same step.
C21_SearchingIffPending ==
  /\ [](isSearching <=> searchTimers # <<>>)
  /\ [](Len(searchTimers) <= 1)
  /\ [][/\ results' # results => event' = "SearchTimerFire"
        /\ event' = "SearchTimerFire"
             => /\ isSearching
                /\ ~isSearching'
                /\ searchTimers' = <<>>
                /\ results' = TimerResults(Head(searchTimers))]_vars

\* a second search is in flight for another blood type while the result set
\* of the first one is still the one shown
C21_Witness ==
  /\ event = "HandleSearch"
  /\ isSearching
  /\ Len(searchTimers) = 1
  /\ results # <<>>
  /\ results # Search(lastReq.type, lastReq.sort)

\* the center whose marker is the i-th on the layer: the user marker, when
\* there is one, comes first
C22_CenterOf(i) == results[i - (IF userLocation # Null THEN 1 ELSE 0)]

C22_IsCenterMarker(i) == markers[i].icon # "user-pulse"

\* C22: every center marker on a reconciled map has the colour its center's
\* units_available calls for: emerald above 10 units, amber from 1 to 10,
\* rose at 0.
C22_ThreeTierColour ==
  BloodMapMounted
    => \A i \in 1..Len(markers) :
         C22_IsCenterMarker(i)
           => LET units == C22_CenterOf(i).units_available
              IN /\ units > 10 => markers[i].icon = "bg-emerald-500"
                 /\ (1 <= units /\ units <= 10) => markers[i].icon = "bg-amber-500"
                 /\ units = 0 => markers[i].icon = "bg-rose-500"

\* centers holding exactly 10 and 11 units are drawn behind the user marker:
\* amber and emerald
C22_Witness ==
  /\ event = "RenderResults"
  /\ userLocation # Null
  /\ Len(markers) = 3
  /\ C22_CenterOf(2).units_available = 10
  /\ markers[2].icon = "bg-amber-500"
  /\ C22_CenterOf(3).units_available = 11
  /\ markers[3].icon = "bg-emerald-500"

C23_MarkerPositions == {markers[i].pos : i \in 1..Len(markers)}

\* C23: while the map stays mounted, a step that leaves no marker on the
\* layer leaves the camera as it was, and whenever markers are on the layer
\* the camera is fitted to the bounds of exactly those markers.
C23_NoRefitOnEmpty ==
  /\ []((BloodMapMounted /\ markers # <<>>)
          => camera = [kind |-> "bounds", at |-> C23_MarkerPositions])
  /\ [][(BloodMapMounted /\ BloodMapMounted' /\ markers' = <<>>)
          => camera' = camera]_vars

\* the map had been fitted to markers, then was reconciled with no results
\* and no user location: the layer is empty and the camera kept its fit
C23_Witness ==
  /\ event = "RenderResults"
  /\ BloodMapMounted
  /\ userLocation = Null
  /\ results = <<>>
  /\ markers = <<>>
  /\ camera.kind = "bounds"
  /\ camera.at # {}

C24_HasUserMarker == \E i \in 1..Len(markers) : markers[i].icon = "user-pulse"

\* C24: a map is created centered at userLocation when it is known at that
\* moment and at (12.9716, 77.5946) otherwise, and that is its view until
\* markers are fitted; once geolocation has failed or is unavailable every
\* map is created at the default coordinate and no user marker is on the
\* layer.
C24_InitialCamera ==
  /\ []((BloodMapMounted /\ camera.kind = "view") => camera.at = {initialPos})
  /\ []((geo \in {"failed", "unavailable"})
          => /\ ~C24_HasUserMarker
             /\ BloodMapMounted => initialPos = "12.9716,77.5946")
  /\ [][mapsCreated' # mapsCreated
          => initialPos' = IF userLocation # Null THEN userLocation
                           ELSE "12.9716,77.5946"]_vars

\* the search tab was entered again after the position had arrived: the
\* second map was created at the user's position
C24_Witness ==
  /\ event = "SetActiveTab"
  /\ BloodMapMounted
  /\ mapInstance = 2
  /\ userLocation # Null
  /\ initialPos = userLocation

\* what the App keeps in state besides the slices of the four operations
C25_Rest == <<selectedBloodType, sortBy, chatOpen, chatInput, navVars>>

C25_SearchSlice == <<results, isSearching>>

C25_ShortageSlice == <<shortageAlert, isCheckingShortages>>

C25_ChatSlice == <<chatHistory, isTyping>>

\* C25: a search timer firing changes only results and isSearching, a
\* shortage lookup settling only shortageAlert and isCheckingShortages, an
\* assistant call settling only chatHistory and isTyping, a geolocation
\* success only userLocation: each leaves the other three slices, the form
\* fields and the navigation state as they were.
C25_DisjointSlices ==
  [][/\ event' = "SearchTimerFire"
          => UNCHANGED <<C25_ShortageSlice, C25_ChatSlice, userLocation, C25_Rest>>
     /\ event' \in {"ShortageResolve", "ShortageReject"}
          => UNCHANGED <<C25_SearchSlice, C25_ChatSlice, userLocation, C25_Rest>>
     /\ event' \in {"ChatResolve", "ChatReject"}
          => UNCHANGED <<C25_SearchSlice, C25_ShortageSlice, userLocation, C25_Rest>>
     /\ event' = "GeoSuccess"
          => UNCHANGED <<C25_SearchSlice, C25_ShortageSlice, C25_ChatSlice,
                         C25_Rest>>]_vars

\* an assistant reply arrived while a search and its shortage lookup were in
\* flight, the position had arrived, and the next message was being typed
C25_Witness ==
  /\ event = "ChatResolve"
  /\ isSearching
  /\ isCheckingShortages
  /\ shortageCalls # <<>>
  /\ userLocation # Null
  /\ chatInput # <<>>

\* C26: in the first implementation the inventory view is open only on the
\* dashboard tab and only for STAFF or ADMIN.
C26_InventoryForStaffOnly ==
  (impl = 1 /\ dashboardView = "inventory")
    => /\ activeTab = "dashboard"
       /\ activeRole \in {"STAFF", "ADMIN"}

\* the dashboard was left for the search tab and entered again, and a STAFF
\* user then opened the inventory view
C26_Witness ==
  /\ event = "OpenInventory"
  /\ dashboardView = "inventory"
  /\ activeRole = "STAFF"
  /\ mapsCreated = 2

C27_Updated(type, delta) ==
  /\ inventory'[type] =
       IF inventory[type] + delta < 0 THEN 0 ELSE inventory[type] + delta
  /\ \A other \in BloodTypes \ {type} : inventory'[other] = inventory[other]

\* C27: every count of the inventory manager is a non-negative integer, and
\* an updateUnits call adds its +1 or -1 to the count of one blood type,
\* stopping at 0, and leaves the other seven counts as they were.
C27_CountsNonNegative ==
  /\ [](\A type \in BloodTypes : inventory[type] \in Nat)
  /\ [][event' = "UpdateUnits"
          => \E type \in BloodTypes, delta \in {-1, 1} : C27_Updated(type, delta)]_vars

\* the - button of AB- was pressed at a count of 0, which stayed 0, after B-
\* had been restocked
C27_Witness ==
  /\ event = "UpdateUnits"
  /\ lastUpdate = [type |-> "AB-", delta |-> -1, before |-> 0]
  /\ inventory["AB-"] = 0
  /\ inventory["B-"] > 3
  /\ inventory["A+"] = 15

=============================================================================
